---- MODULE Spec2Model ----
(***************************************************************************)
(* Verification model of the adamOS retrieval / synthesis / rendering      *)
(* pipeline: EmotionalModel (mood state), SacredScanner (scan, thematic    *)
(* index), UniversalSynthesizer (blend), AdamAI.respond and the two API    *)
(* front ends.                                                             *)
(*                                                                         *)
(* Numbers are fixed point: moods, scores and intensities are in units of  *)
(* 1/10000, emotion weights in units of 1/100, source weights in units of  *)
(* 1/10, confidences in units of 1/1000, times in seconds.                 *)
(***************************************************************************)
EXTENDS Integers, Sequences, FiniteSets, TLC

VARIABLES
    em,             \* the EmotionalModel instance: mood, mood_history, last_update
    now,            \* the wall clock read by datetime.now()
    em_calls,       \* number of update_mood calls made so far
    corpus,         \* ids of the documents stored in the entries collection
    thematic_index, \* SacredScanner.thematic_index: theme -> list of entries
    scan_out,       \* outcome of the scan call in progress, "none" between calls
    bl_verses,      \* the verses list a caller of blend holds
    bl_wisdom,      \* the wisdom list a caller of blend holds
    bl_answer,      \* what the latest blend call returned
    bl_prev,        \* what the blend call before it returned
    rb,             \* the _refresh_thematic_index call: position, snapshot before it, failed query
    seen,           \* what the latest thematic_index.get of a concurrent reader returned
    conversations,  \* MemoryDatabase.conversations: the stored turns, oldest first
    reply,          \* how the latest AdamAI.respond call ended
    adam_instances, \* server.py: user id -> the user's AdamAI (its two EmotionalModels)
    gateway_adam,   \* gateway.py: the one AdamAI serving every user
    api_turn,       \* the latest API request: front end, user, mood reported
    rendered,       \* the latest call of a renderer: which, on what, what it returned
    wf,             \* the scan-blend-render runs made on the corpus as it is, oldest first
    reqs,           \* server.py requests of one user: waiting, and served in order
    conv_memory,    \* a ConversationMemory: context_window, spiritual_themes, its file
    unknown,        \* an InteractiveLearner: unknown_questions and its storage file
    memdb           \* MemoryDatabase: conversations and summaries, the latest analysis

moodVars == <<em, now, em_calls>>

scanVars == <<corpus, thematic_index, scan_out>>

blendVars == <<bl_verses, bl_wisdom, bl_answer, bl_prev>>

indexVars == <<rb, seen>>

respondVars == <<conversations, reply>>

apiVars == <<adam_instances, gateway_adam, api_turn>>

vars == <<moodVars, scanVars, blendVars, indexVars, respondVars, apiVars, rendered, wf, reqs,
          conv_memory, unknown, memdb>>

\* what the operations of one component leave alone
notMoodVars == <<scanVars, blendVars, indexVars, respondVars, apiVars, rendered, wf, reqs,
                 conv_memory, unknown, memdb>>

notScanVars == <<moodVars, blendVars, indexVars, respondVars, apiVars, rendered, wf, reqs,
                 conv_memory, unknown, memdb>>

notIndexVars == <<moodVars, blendVars, scan_out, respondVars, apiVars, rendered, wf, reqs,
                  conv_memory, unknown, memdb>>

\* the API requests read the clock
notApiVars == <<em, em_calls, scanVars, blendVars, indexVars, respondVars, rendered, wf, reqs,
                conv_memory, unknown, memdb>>

(***************************************************************************)
(* Generic helpers                                                         *)
(***************************************************************************)
Min(a, b) == IF a < b THEN a ELSE b

Max(a, b) == IF a > b THEN a ELSE b

Abs(a) == IF a < 0 THEN 0 - a ELSE a

Range(s) == {s[i] : i \in 1..Len(s)}

(***************************************************************************)
(* EmotionalModel                                                          *)
(***************************************************************************)
MaxUpdates == 3

ElapsedChoices == {0, 1800, 3600, 9000}

base_mood == 7000

\* the emotions in the insertion order of the emotion_weights dict
EmotionOrder == <<"joy", "love", "peace", "hope", "anger", "sadness", "fear", "shame">>

PositiveEmotions == {"joy", "love", "peace", "hope"}

NegativeEmotions == {"anger", "sadness", "fear", "shame"}

emotion_weights ==
    [e \in PositiveEmotions \cup NegativeEmotions |->
        CASE e = "joy" -> 15 [] e = "love" -> 12 [] e = "peace" -> 10 [] e = "hope" -> 8
          [] e = "anger" -> -18 [] e = "sadness" -> -15 [] e = "fear" -> -12 [] e = "shame" -> -10]

\* A user input as the model sees it: whether it is empty, which emotion
\* names occur in it as substrings (the "in text_lower" test) and which occur
\* as whole tokens (what the TF-IDF vectorizer counts).
MoodTexts ==
    { [empty |-> TRUE,  substr |-> {}, tokens |-> {}],
      [empty |-> FALSE, substr |-> {}, tokens |-> {}],
      [empty |-> FALSE, substr |-> {"joy"}, tokens |-> {"joy"}],
      [empty |-> FALSE, substr |-> {"joy", "hope"}, tokens |-> {}],
      [empty |-> FALSE, substr |-> {"anger", "sadness"}, tokens |-> {"anger", "sadness"}],
      [empty |-> FALSE, substr |-> {"love", "fear"}, tokens |-> {"love", "fear"}],
      [empty |-> FALSE, substr |-> PositiveEmotions, tokens |-> PositiveEmotions] }

\* floor(1000 * sqrt(n)), the norm of a TF-IDF row with n equally weighted terms
ISqrt1000(n) ==
    CASE n = 1 -> 1000 [] n = 2 -> 1414 [] n = 3 -> 1732 [] n = 4 -> 2000
      [] n = 5 -> 2236 [] n = 6 -> 2449 [] n = 7 -> 2645 [] n = 8 -> 2828

\* cosine similarity between the text's TF-IDF row and the row of a category
\* document (four terms, each 0.5 after normalisation)
CategorySimilarity(text, category) ==
    LET n == Cardinality(text.tokens)
        k == Cardinality(text.tokens \cap category)
    IN  IF n = 0 THEN 0 ELSE (k * 5000 * 1000) \div ISqrt1000(n)

\* semantic score per emotion (absent emotions are not in the domain)
detect_semantic_emotions(text) ==
    LET pos_sim == CategorySimilarity(text, PositiveEmotions)
        neg_sim == CategorySimilarity(text, NegativeEmotions)
    IN  IF pos_sim > neg_sim
        THEN [e \in PositiveEmotions |-> pos_sim \div 2]
        ELSE [e \in NegativeEmotions |-> 0 - (neg_sim \div 2)]

\* the emotion_scores dict as a sequence of <<emotion, score>> in insertion order
EmotionScores(text) ==
    LET sem == detect_semantic_emotions(text)
        SemHalf(e) == IF sem[e] < 0 THEN 0 - ((0 - sem[e]) \div 2) ELSE sem[e] \div 2
        lexical == SelectSeq(EmotionOrder, LAMBDA e : e \in text.substr)
        added == SelectSeq(EmotionOrder, LAMBDA e : e \in DOMAIN sem /\ e \notin text.substr)
        Score(e) == (IF e \in text.substr THEN emotion_weights[e] * 100 ELSE 0)
                    + (IF e \in DOMAIN sem THEN SemHalf(e) ELSE 0)
    IN  [i \in 1..(Len(lexical) + Len(added)) |->
            LET e == IF i <= Len(lexical) THEN lexical[i] ELSE added[i - Len(lexical)]
            IN  <<e, Score(e)>>]

\* first element of the stable descending sort by absolute score
PrimaryIndex(scores) ==
    CHOOSE i \in 1..Len(scores) :
        /\ \A j \in 1..Len(scores) : Abs(scores[j][2]) <= Abs(scores[i][2])
        /\ \A j \in 1..(i - 1) : Abs(scores[j][2]) < Abs(scores[i][2])

analyze_emotional_context(text) ==
    IF text.empty
    THEN [primary_emotion |-> "None", intensity |-> 5000]
    ELSE LET scores == EmotionScores(text)
         IN  IF Len(scores) = 0
             THEN [primary_emotion |-> "None", intensity |-> 5000]
             ELSE LET top == scores[PrimaryIndex(scores)]
                  IN  [primary_emotion |-> top[1],
                       intensity |-> Min(10000, Abs(top[2]) * 2)]

DecayNoFloor(elapsed) == 7200 - elapsed

\* decay_factor = max(0.3, 1 - elapsed / 7200), as a numerator over 7200
DecayNumerator(elapsed) == Max(2160, 7200 - elapsed)

\* weight * intensity, rounded toward zero
MoodChange(weight, intensity) ==
    IF weight < 0 THEN 0 - (((0 - weight) * intensity) \div 100)
    ELSE (weight * intensity) \div 100

ClipMoodNoFloor(v) == Min(9000, v)

ClipMood(v) == Max(1000, Min(9000, v))

\* the EmotionalModel after update_mood(text) called at time t
update_mood(m, text, t) ==
    LET analysis == analyze_emotional_context(text)
    IN  IF analysis.primary_emotion = "None"
        THEN m
        ELSE LET weight == emotion_weights[analysis.primary_emotion]
                 mood_change == MoodChange(weight, analysis.intensity)
                 decayed == (m.mood * DecayNumerator(t - m.last_update)) \div 7200
                 new_mood == ClipMood(decayed + mood_change)
             IN  [mood |-> new_mood,
                  mood_history |-> Append(m.mood_history, <<t, new_mood>>),
                  last_update |-> t]

NewEmotionalModel(t) == [mood |-> base_mood, mood_history |-> <<>>, last_update |-> t]


UpdateMood(text, dt) ==
    /\ em_calls < MaxUpdates
    /\ now' = now + dt
    /\ em' = update_mood(em, text, now + dt)
    /\ em_calls' = em_calls + 1
    /\ UNCHANGED notMoodVars

\* _get_mood_level
get_mood_level(mood) ==
    IF mood > 8000 THEN "high"
    ELSE IF mood > 6000 THEN "moderate_high"
    ELSE IF mood > 4000 THEN "moderate"
    ELSE IF mood > 2000 THEN "moderate_low"
    ELSE "low"

\* the run of consecutive turns with negative input
NegativeTurns == 10

\* one turn of the run: update_mood(text), dt seconds after the turn before
NegativeTurn(text, dt) ==
    /\ em_calls < NegativeTurns
    /\ em_calls > 0 => dt = em.mood_history[1][1]
    /\ now' = now + dt
    /\ em' = update_mood(em, text, now + dt)
    /\ em_calls' = em_calls + 1
    /\ UNCHANGED notMoodVars

(***************************************************************************)
(* Corpus store (KnowledgeDatabase)                                        *)
(***************************************************************************)
QURAN == "quran"

BIBLE == "bible"

BOOK == "book"

\* The documents an import can store, in import order.  content is the
\* text split at whitespace, vector the presence of an embedding.
Docs ==
    << [source |-> QURAN, tags |-> {"comfort"},  content |-> <<"with", "hardship", "comes", "ease">>, vector |-> TRUE],
       [source |-> QURAN, tags |-> {"mercy"},    content |-> <<"Mercy", "encompasses", "all">>, vector |-> TRUE],
       [source |-> QURAN, tags |-> {"mercy"},    content |-> <<"lord", "most", "merciful">>, vector |-> TRUE],
       [source |-> QURAN, tags |-> {"patience"}, content |-> <<"seek", "help", "through", "patience">>, vector |-> TRUE],
       [source |-> QURAN, tags |-> {"prayer"},   content |-> <<"establish", "prayer">>, vector |-> TRUE],
       [source |-> QURAN, tags |-> {"prophets"}, content |-> <<"musa", "spoke", "truth">>, vector |-> TRUE],
       [source |-> BIBLE, tags |-> {"comfort"},  content |-> <<"despair", "fills", "heart">>, vector |-> TRUE],
       [source |-> BIBLE, tags |-> {"mercy"},    content |-> <<"cruel", "world">>, vector |-> TRUE],
       [source |-> BIBLE, tags |-> {"mercy"},    content |-> <<"blessed", "merciful">>, vector |-> TRUE],
       [source |-> BOOK,  tags |-> {"wisdom"},   content |-> <<"believe", "steadfast">>, vector |-> TRUE],
       [source |-> QURAN, tags |-> {"mercy"},    content |-> <<"mercy", "descends">>, vector |-> TRUE],
       [source |-> QURAN, tags |-> {"mercy"},    content |-> <<"mercy", "follows", "prayer">>, vector |-> TRUE],
       \* the version of document 2 that update_knowledge inserts: no tags, no vector
       [source |-> QURAN, previous_version |-> 2, content |-> <<"mercy", "endures">>] >>

\* the documents the scanner, index and respond specifications store
DocIds == 1..10

\* the questions asked, split at whitespace
Questions ==
    { <<"tell", "about", "mercy">>,
      <<"feeling", "lonely", "peace">>,
      <<"Forgive", "me?">> }

\* str.lower() on the words of the vocabulary
Lower(w) ==
    CASE w = "Mercy" -> "mercy"
      [] w = "Forgive" -> "forgive"
      [] OTHER -> w

IsSubstring(a, b) == a = b \/ <<a, b>> \in {<<"lie", "believe">>, <<"ease", "peaseful">>}

\* "bad_word in item_text" on the lower-cased text
TextContains(content, w) == \E i \in 1..Len(content) : IsSubstring(w, Lower(content[i]))

\* sorted(seq, key=..., reverse=True), keys[i] being the key of seq[i]:
\* descending, equal keys keep their original order
StableSortDesc(seq, keys) ==
    LET n == Len(seq)
        Pos(i) == 1 + Cardinality({j \in 1..n :
                        \/ keys[j] > keys[i]
                        \/ (keys[j] = keys[i] /\ j < i)})
    IN  [p \in 1..n |-> seq[CHOOSE i \in 1..n : Pos(i) = p]]

\* sorted(seq, key=lambda x: x.get('score', 0), reverse=True)
SortByScore(seq) == StableSortDesc(seq, [i \in 1..Len(seq) |-> seq[i].score])

Take(seq, n) == SubSeq(seq, 1, Min(n, Len(seq)))

\* the ids of a set in ascending order (the order documents were inserted)
RECURSIVE SetToSeq(_)
SetToSeq(S) ==
    IF S = {} THEN <<>>
    ELSE LET m == CHOOSE x \in S : \A y \in S : x <= y
         IN  <<m>> \o SetToSeq(S \ {m})

\* the aggregation pipeline: $vectorSearch with the source filter and the
\* limit, then $project
VectorPipeline(stored, qwords, source, limit) ==
    LET \* vectorSearchScore of a document for the query, in percent: word
        \* overlap of the two texts, shorter documents scoring higher
        VectorScore(d) ==
            LET q == {Lower(qwords[i]) : i \in 1..Len(qwords)}
                c == {Lower(Docs[d].content[i]) : i \in 1..Len(Docs[d].content)}
            IN  50 + 15 * Cardinality(q \cap c) - Len(Docs[d].content)
        \* the $project stage: _id, content, source and score are kept, tags are not
        ProjectEntry(d) ==
            [id |-> d, content |-> Docs[d].content, source |-> Docs[d].source,
             score |-> VectorScore(d)]
        \* "path": "vector": entries without the field are not searched
        matching == {d \in stored : /\ "vector" \in DOMAIN Docs[d]
                                    /\ (source = "None" \/ Docs[d].source = source)}
        projected == [i \in 1..Cardinality(matching) |-> ProjectEntry(SetToSeq(matching)[i])]
    IN  Take(SortByScore(projected), limit)

\* KnowledgeDatabase.search(query, source, limit=...): find with a $text
\* filter, which matches whole words case-insensitively, in insertion order
search(stored, qwords, source, limit) ==
    LET q == {Lower(qwords[i]) : i \in 1..Len(qwords)}
        found == {d \in stored :
                    /\ source = "None" \/ Docs[d].source = source
                    /\ \E i \in 1..Len(Docs[d].content) : Lower(Docs[d].content[i]) \in q}
    IN  Take(SetToSeq(found), limit)

hybrid_search(stored, qwords, source, limit) == VectorPipeline(stored, qwords, source, limit)

\* the vector_search(theme, limit=..., source=...) the scanner calls
vector_search(stored, theme, limit, source) == VectorPipeline(stored, <<theme>>, source, limit)

(***************************************************************************)
(* SacredScanner                                                           *)
(***************************************************************************)
ThemeOrder == <<"mercy", "comfort", "prophets", "prayer", "patience">>

theme_hierarchy ==
    [t \in Range(ThemeOrder) |->
        CASE t = "mercy" -> {"forgive", "compassion", "kindness", "pardon", "merciful"}
          [] t = "comfort" -> {"lonely", "sad", "ease", "distress", "anxiety", "peace"}
          [] t = "prophets" -> {"muhammad", "isa", "musa", "abraham", "david", "solomon"}
          [] t = "prayer" -> {"supplication", "dua", "worship", "invocation"}
          [] t = "patience" -> {"perseverance", "steadfast", "endurance", "trials"}]

contradiction_map ==
    [t \in {"mercy", "comfort", "truth"} |->
        CASE t = "mercy" -> {"harsh", "unforgiving", "cruel"}
          [] t = "comfort" -> {"despair", "hopeless", "abandon"}
          [] t = "truth" -> {"falsehood", "lie", "deceive"}]

\* r.get('tags', [])
GetTags(r) == IF "tags" \in DOMAIN r THEN r.tags ELSE {}

\* thematic_index.get(theme, [])
IndexGet(index, theme) == IF theme \in DOMAIN index THEN index[theme] ELSE <<>>

extract_keywords(text) ==
    {Lower(text[i]) : i \in {j \in 1..Len(text) : Len(text[j]) > 3 /\ text[j] \notin {"me?"}}}

RankWithoutSourceFilter(results, source, exclude_source) == SortByScore(results)

filter_and_rank_results(results, source, exclude_source) ==
    LET filtered == SelectSeq(results, LAMBDA r :
                        /\ ~(source # "None" /\ r.source # source)
                        /\ ~(exclude_source # "None" /\ r.source = exclude_source))
    IN  SortByScore(filtered)

\* the themes collected from a list of verses: their tags and content keywords
VerseThemes(verses) ==
    UNION {GetTags(verses[i]) \cup extract_keywords(verses[i].content) : i \in 1..Len(verses)}

filter_contradictions(items, quran_verses) ==
    IF Len(quran_verses) = 0 THEN items
    ELSE LET quran_themes == VerseThemes(quran_verses)
             Contradicts(item) ==
                \E theme \in quran_themes \cap DOMAIN contradiction_map :
                    \E bad_word \in contradiction_map[theme] : TextContains(item.content, bad_word)
         IN  SelectSeq(items, LAMBDA item : ~Contradicts(item))

\* concatenation of the index lists of the themes, in the given order
RECURSIVE ExtendFromIndex(_, _)
ExtendFromIndex(index, themes) ==
    IF Len(themes) = 0 THEN <<>>
    ELSE IndexGet(index, Head(themes)) \o ExtendFromIndex(index, Tail(themes))

expand_quran_themes(index, question) ==
    LET question_keywords == extract_keywords(question)
        hit == SelectSeq(ThemeOrder, LAMBDA t : theme_hierarchy[t] \cap question_keywords # {})
    IN  Take(SortByScore(ExtendFromIndex(index, hit)), 5)

\* the orders in which a set of themes can be iterated
ThemeOrders(S) ==
    {o \in [1..Cardinality(S) -> S] : \A i, j \in 1..Cardinality(S) : i # j => o[i] # o[j]}

\* the possible results of _get_related_results: with three or more verses
\* the themes of the top three are looked up in set iteration order; themes
\* without an index entry contribute nothing wherever they come
get_related_results(index, question, quran_results) ==
    IF Len(quran_results) >= 3
    THEN LET themes == VerseThemes(Take(quran_results, 3)) \cap DOMAIN index
         IN  {Take(ExtendFromIndex(index, o), 5) : o \in ThemeOrders(themes)}
    ELSE {expand_quran_themes(index, question)}

\* _get_initial_results
get_initial_results(stored, question, context) ==
    IF context # "None"
    THEN hybrid_search(stored, question, context, 15)
    ELSE hybrid_search(stored, question, "None", 20)

\* what one attempt of the body of scan returns when the search succeeds
ScanBody(stored, index, question, context) ==
    LET all_results == get_initial_results(stored, question, context)
        quran_results == filter_and_rank_results(all_results, QURAN, "None")
        other_results == filter_and_rank_results(all_results, "None", QURAN)
        filtered_other == filter_contradictions(other_results, quran_results)
    IN  {[status |-> "returned",
          verses |-> Take(quran_results, 5),
          wisdom |-> Take(filtered_other, 3),
          related |-> Take(related_results, 5),
          all_results |-> all_results] :
            related_results \in get_related_results(index, question, quran_results)}

\* stop_after_attempt(3) of the retry decorator on scan
MaxAttempts == 3

\* _refresh_thematic_index over the themes in order, none of the queries failing
RefreshTheme(stored, theme) ==
    vector_search(stored, theme, 20, QURAN)
        \o vector_search(stored, theme, 10, BIBLE)
        \o vector_search(stored, theme, 5, BOOK)

FullIndex(stored) == [t \in Range(ThemeOrder) |-> RefreshTheme(stored, t)]

NoScan == [status |-> "none"]

\* store_knowledge: a document is inserted
StoreKnowledge(d) ==
    /\ scan_out = NoScan
    /\ d \notin corpus
    /\ \A c \in corpus : c < d
    /\ corpus' = corpus \cup {d}
    /\ UNCHANGED <<thematic_index, scan_out, notScanVars>>

\* update_knowledge(old, new_content): the old entry stays, marked not
\* current, and the new version is inserted
UpdateKnowledge(old, d) ==
    /\ scan_out = NoScan
    /\ old \in corpus
    /\ d \notin corpus
    /\ "previous_version" \in DOMAIN Docs[d] /\ Docs[d].previous_version = old
    /\ corpus' = corpus \cup {d}
    /\ UNCHANGED <<thematic_index, scan_out, notScanVars>>

\* _refresh_thematic_index, every query answering
Refresh ==
    /\ scan_out = NoScan
    /\ thematic_index' = FullIndex(corpus)
    /\ UNCHANGED <<corpus, scan_out, notScanVars>>

\* scan(question, context).  fails is the number of leading attempts whose
\* search raises: the except clause of such an attempt itself raises
\* TypeError (logging.getLogger takes no exc_info), the decorator retries, and
\* after MaxAttempts failed attempts the call raises RetryError.
Scan(question, context, fails) ==
    /\ scan_out = NoScan
    /\ IF fails >= MaxAttempts
       THEN scan_out' = [status |-> "raised", fails |-> fails, question |-> question,
                         context |-> context]
       ELSE \E r \in ScanBody(corpus, thematic_index, question, context) :
                scan_out' = [r EXCEPT !.status = "returned"] @@
                            [fails |-> fails, question |-> question, context |-> context]
    /\ UNCHANGED <<corpus, thematic_index, notScanVars>>

\* the caller is done with the ScanResult
DiscardScan ==
    /\ scan_out # NoScan
    /\ scan_out' = NoScan
    /\ UNCHANGED <<corpus, thematic_index, notScanVars>>

(***************************************************************************)
(* UniversalSynthesizer                                                    *)
(***************************************************************************)
MaxBlendList == 2

\* source multipliers, in tenths
theme_weights == [src \in {"quran", "bible", "book"} |->
                    CASE src = "quran" -> 15 [] src = "bible" -> 12 [] src = "book" -> 10]

\* primary-source entries a caller may pass as verses
VersePool ==
    { [id |-> 1, content |-> Docs[1].content, source |-> QURAN, score |-> 60],
      [id |-> 2, content |-> Docs[2].content, source |-> QURAN, score |-> 90],
      [id |-> 3, content |-> Docs[3].content, source |-> QURAN, score |-> 60, tags |-> {"mercy"}] }

\* secondary-source entries a caller may pass as wisdom
WisdomPool ==
    { [id |-> 7, content |-> Docs[7].content, source |-> BIBLE, score |-> 95],
      [id |-> 10, content |-> Docs[10].content, source |-> BOOK, score |-> 70],
      [id |-> 21, content |-> <<"hope", "heals", "pain">>, source |-> "Document", score |-> 95,
       tags |-> {"comfort", "solace", "peace"}] }

\* entry['weight'] = w on the dict itself
SetWeight(e, w) ==
    [f \in DOMAIN e \cup {"weight"} |-> IF f = "weight" THEN w ELSE e[f]]

\* the weight _combine_sources gives each entry: that of 'quran' to a verse,
\* that of its lower-cased source, 1.0 by default, to a wisdom entry
WeighAll(seq, verse) ==
    LET LowerSource(src) == IF src = "Document" THEN "document" ELSE src
        WeighVerse(e) == SetWeight(e, theme_weights["quran"])
        WeighWisdom(e) ==
            LET source_type == LowerSource(e.source)
            IN  SetWeight(e, IF source_type \in DOMAIN theme_weights
                             THEN theme_weights[source_type] ELSE 10)
    IN  [i \in 1..Len(seq) |-> IF verse THEN WeighVerse(seq[i]) ELSE WeighWisdom(seq[i])]

\* the same with the score alone as the sort key
CombineSourcesByScore(verses, wisdom) ==
    LET combined == WeighAll(verses, TRUE) \o WeighAll(wisdom, FALSE)
    IN  StableSortDesc(combined, [i \in 1..Len(combined) |-> combined[i].score])

\* sorted by the key (x['weight'], x.get('score', 0)), descending
combine_sources(verses, wisdom) ==
    LET combined == WeighAll(verses, TRUE) \o WeighAll(wisdom, FALSE)
    IN  StableSortDesc(combined,
            [i \in 1..Len(combined) |-> combined[i].weight * 1000 + combined[i].score])

NeedMoreTime == "I need more time to contemplate this question"

\* the headline text, and the source and text of the supporting point
create_unified_content(sources) ==
    IF Len(sources) = 0 THEN <<NeedMoreTime>>
    ELSE IF Len(sources) > 1
         THEN <<sources[1].content, sources[2].source, sources[2].content>>
         ELSE <<sources[1].content>>

\* the same with the count term subtracted instead of added
CalculateConfidenceCountLowers(sources) ==
    IF Len(sources) = 0 THEN 0
    ELSE LET base_conf == Min(70 - Len(sources) * 5, 95)
             weighted_conf == base_conf * sources[1].weight
         IN  Min(weighted_conf, 1000)

\* in thousandths
calculate_confidence(sources) ==
    IF Len(sources) = 0 THEN 0
    ELSE LET base_conf == Min(70 + Len(sources) * 5, 95)
             weighted_conf == base_conf * sources[1].weight
         IN  Min(weighted_conf, 1000)

\* in hundredths
analyze_mood(sources) ==
    LET Hits(i, words) == Cardinality({w \in words : TextContains(sources[i].content, w)})
        RECURSIVE Sum(_)
        Sum(i) == IF i = 0 THEN 50
                  ELSE Sum(i - 1)
                        + 2 * Hits(i, {"hope", "love", "peace", "joy", "mercy"})
                        - 2 * Hits(i, {"lonely", "suffering", "pain", "fear", "anger"})
    IN  Max(10, Min(90, Sum(Len(sources))))

\* the synthesizer's own theme vocabulary, in dict order
SynthThemeOrder == <<"comfort", "mercy", "wisdom", "prayer", "prophets">>

synth_theme_hierarchy ==
    [t \in Range(SynthThemeOrder) |->
        CASE t = "comfort" -> {"lonely", "sad", "ease", "peace", "solace", "heal"}
          [] t = "mercy" -> {"forgive", "compassion", "kind", "merciful", "pardon", "grace"}
          [] t = "wisdom" -> {"knowledge", "understanding", "insight", "learn", "teach"}
          [] t = "prayer" -> {"supplication", "dua", "worship", "invocation", "pray"}
          [] t = "prophets" -> {"muhammad", "isa", "musa", "abraham", "david", "solomon"}]

\* the tokens of the vocabulary in the alphabetical order of
\* get_feature_names_out
AlphabeticalTerms ==
    << "believe", "blessed", "comes", "cruel", "descends", "despair", "ease",
       "encompasses", "establish", "fills", "follows", "hardship", "heals", "heart", "help", "hope", "lord",
       "merciful", "mercy", "musa", "pain", "patience", "prayer", "seek", "spoke",
       "steadfast", "truth", "world" >>

\* number of occurrences of a term among the tokens of a text
TermCount(content, term) ==
    \* stop_words='english' removes these words of the vocabulary
    IF term \in {"with", "all", "most", "through", "me"} THEN 0
    ELSE Cardinality({i \in 1..Len(content) : Lower(content[i]) = term})

\* floor of the square root, by bisection
RECURSIVE ISqrtBetween(_, _, _)
ISqrtBetween(x, lo, hi) ==
    IF lo >= hi THEN lo
    ELSE LET mid == (lo + hi + 1) \div 2
         IN  IF mid * mid <= x THEN ISqrtBetween(x, mid, hi) ELSE ISqrtBetween(x, lo, mid - 1)

\* sum of f[i] over a sequence of integers
RECURSIVE SeqSum(_)
SeqSum(f) == IF Len(f) = 0 THEN 0 ELSE Head(f) + SeqSum(Tail(f))

\* vectorizer.fit(texts) then the column sums of transform(texts): the
\* features in alphabetical order, each with its summed l2-normalised
\* tf-idf weight (in 1/10000)
TfidfColumnSums(texts) ==
    LET n == Len(texts)
        \* 1000 * (ln((1 + n) / (1 + df)) + 1), the smoothed idf of a term
        \* found in df of the n documents
        Idf1000(df) ==
            LET row == CASE n = 1 -> <<1000>>
                         [] n = 2 -> <<1405, 1000>>
                         [] n = 3 -> <<1693, 1288, 1000>>
                         [] n = 4 -> <<1916, 1511, 1223, 1000>>
                         [] n = 5 -> <<2099, 1693, 1405, 1182, 1000>>
                         [] n = 6 -> <<2253, 1847, 1560, 1336, 1154, 1000>>
                         [] n = 7 -> <<2386, 1981, 1693, 1470, 1288, 1134, 1000>>
            IN  row[df]
        ISqrt(x) == ISqrtBetween(x, 0, 32768)
        features == SelectSeq(AlphabeticalTerms,
                        LAMBDA t : \E i \in 1..n : TermCount(texts[i], t) > 0)
        Df(t) == Cardinality({i \in 1..n : TermCount(texts[i], t) > 0})
        Raw(i, t) == TermCount(texts[i], t) * Idf1000(Df(t))
        Norm(i) == ISqrt(SeqSum([k \in 1..Len(features) |-> Raw(i, features[k]) * Raw(i, features[k])]))
        Weight(i, t) == IF Norm(i) = 0 THEN 0 ELSE (Raw(i, t) * 10000) \div Norm(i)
    IN  [k \in 1..Len(features) |->
            [term |-> features[k],
             score |-> SeqSum([i \in 1..n |-> Weight(i, features[k])])]]

\* terms[i] for i in argsort(scores)[-5:][::-1]: the five highest column
\* sums, highest first, of equal sums the alphabetically later first
TopTerms(texts) ==
    LET cols == TfidfColumnSums(texts)
        m == Len(cols)
        descending == StableSortDesc([k \in 1..m |-> cols[m + 1 - k]],
                                     [k \in 1..m |-> cols[m + 1 - k].score])
    IN  [k \in 1..Min(5, m) |-> descending[k].term]

\* the tags of an entry as a list
RECURSIVE TagList(_)
TagList(tags) ==
    IF tags = {} THEN <<>>
    ELSE LET t == CHOOSE x \in tags : TRUE
         IN  <<t>> \o TagList(tags \ {t})

RECURSIVE AllTags(_)
AllTags(sources) ==
    IF Len(sources) = 0 THEN <<>>
    ELSE TagList(GetTags(Head(sources))) \o AllTags(Tail(sources))

\* the themes a list of terms maps to, each once, in order of first match
RECURSIVE DetectThemes(_, _)
DetectThemes(terms, detected) ==
    IF Len(terms) = 0 THEN detected
    ELSE LET new == SelectSeq(SynthThemeOrder,
                        LAMBDA t : Head(terms) \in synth_theme_hierarchy[t]
                                   /\ t \notin Range(detected))
         IN  DetectThemes(Tail(terms), detected \o new)

analyze_themes(sources) ==
    IF Len(sources) = 0 THEN <<>>
    ELSE DetectThemes(TopTerms([i \in 1..Len(sources) |-> sources[i].content]) \o AllTags(sources),
                      <<>>)

\* Counter(themes).most_common(1)[0][0]: the theme counted most often, of
\* equally frequent ones the first in the list
determine_primary_theme(themes) ==
    IF Len(themes) = 0 THEN "default"
    ELSE LET Count(t) == Cardinality({i \in 1..Len(themes) : themes[i] = t})
             best == CHOOSE i \in 1..Len(themes) :
                        /\ \A j \in 1..Len(themes) : Count(themes[j]) <= Count(themes[i])
                        /\ \A j \in 1..(i - 1) : Count(themes[j]) < Count(themes[i])
         IN  themes[best]

synthesizer_empty_response ==
    [content |-> <<NeedMoreTime>>,
     primary_theme |-> "default",
     sources |-> <<>>,
     supporting_sources |-> <<>>,
     confidence |-> 0,
     mood_score |-> 50]

\* the same with "or" for "and" in the guard
BlendEmptyIfEither(verses, wisdom) ==
    IF Len(verses) = 0 \/ Len(wisdom) = 0
    THEN synthesizer_empty_response
    ELSE LET all_sources == combine_sources(verses, wisdom)
             themes == analyze_themes(all_sources)
         IN  [content |-> create_unified_content(all_sources),
              primary_theme |-> determine_primary_theme(themes),
              sources |-> Take(all_sources, 1),
              supporting_sources |-> SubSeq(all_sources, 2, Min(4, Len(all_sources))),
              confidence |-> calculate_confidence(all_sources),
              mood_score |-> analyze_mood(all_sources),
              detected_themes |-> themes]

blend(verses, wisdom) ==
    IF Len(verses) = 0 /\ Len(wisdom) = 0
    THEN synthesizer_empty_response
    ELSE LET all_sources == combine_sources(verses, wisdom)
             themes == analyze_themes(all_sources)
         IN  [content |-> create_unified_content(all_sources),
              primary_theme |-> determine_primary_theme(themes),
              detected_themes |-> themes,
              sources |-> Take(all_sources, 1),
              supporting_sources |-> SubSeq(all_sources, 2, Min(4, Len(all_sources))),
              confidence |-> calculate_confidence(all_sources),
              mood_score |-> analyze_mood(all_sources)]

NoAnswer == [content |-> <<>>]

\* blend(verses, wisdom) on the lists held; the entries of both lists carry
\* their weight afterwards
BlendCall(verses, wisdom) ==
    /\ bl_answer' = blend(verses, wisdom)
    /\ bl_prev' = bl_answer
    /\ bl_verses' = WeighAll(verses, TRUE)
    /\ bl_wisdom' = WeighAll(wisdom, FALSE)
    /\ UNCHANGED <<moodVars, scanVars, indexVars, respondVars, apiVars, rendered, wf, reqs,
                   conv_memory, unknown, memdb>>

\* blend on the lists as they are
BlendAgain == BlendCall(bl_verses, bl_wisdom)

\* one more primary-source entry is appended to verses, then blend
BlendWithVerse(e) ==
    /\ Len(bl_verses) < MaxBlendList
    /\ \A i \in 1..Len(bl_verses) : bl_verses[i].id # e.id
    /\ BlendCall(Append(bl_verses, e), bl_wisdom)

\* one more secondary-source entry is appended to wisdom, then blend
BlendWithWisdom(e) ==
    /\ Len(bl_wisdom) < MaxBlendList
    /\ \A i \in 1..Len(bl_wisdom) : bl_wisdom[i].id # e.id
    /\ BlendCall(bl_verses, Append(bl_wisdom, e))

(***************************************************************************)
(* _refresh_thematic_index statement by statement, beside readers of the   *)
(* index                                                                   *)
(***************************************************************************)
NoLookup == [theme |-> "none"]

\* self.thematic_index = defaultdict(list)
RefreshBegin ==
    /\ rb.pc # "running"
    /\ scan_out = NoScan
    /\ rb' = [pc |-> "running", k |-> 1, before |-> thematic_index, failed |-> <<>>]
    /\ thematic_index' = <<>>
    /\ UNCHANGED <<corpus, seen, notIndexVars>>

\* one iteration of the loop over theme_hierarchy.keys().  When a query
\* raises, the except clause calls logging.getLogger with exc_info, which
\* raises TypeError: the exception leaves _refresh_thematic_index.
RefreshIteration(outcome) ==
    /\ rb.pc = "running"
    /\ LET theme == ThemeOrder[rb.k]
       IN  IF outcome = "ok"
           THEN /\ thematic_index' = (theme :> RefreshTheme(corpus, theme)) @@ thematic_index
                /\ rb' = [rb EXCEPT !.k = @ + 1,
                                    !.pc = IF rb.k = Len(ThemeOrder) THEN "idle" ELSE "running"]
           ELSE /\ thematic_index' = thematic_index
                /\ rb' = [rb EXCEPT !.pc = "raised", !.failed = <<theme, outcome>>]
    /\ UNCHANGED <<corpus, seen, notIndexVars>>

\* self.thematic_index.get(theme, []) in _get_related_results and
\* _expand_quran_themes, by a scan running beside the rebuild; before and
\* after are what the index held for the theme when the rebuild began (whole:
\* for every theme) and what a finished rebuild holds
Lookup(theme) ==
    /\ seen' = [theme |-> theme,
                result |-> IndexGet(thematic_index, theme),
                pc |-> rb.pc,
                before |-> IndexGet(rb.before, theme),
                whole |-> DOMAIN rb.before = Range(ThemeOrder),
                after |-> IndexGet(FullIndex(corpus), theme)]
    /\ UNCHANGED <<corpus, thematic_index, rb, notIndexVars>>

\* store_knowledge between rebuilds
IndexStore(d) ==
    /\ rb.pc # "running"
    /\ d \in {1, 7}
    /\ StoreKnowledge(d)

(***************************************************************************)
(* AdamAI.respond                                                          *)
(***************************************************************************)
MaxTurns == 2

UserIds == {"u1", "u2"}

\* re.search(r"\b(?:w1|w2|...)\b", text_lower) for single words
HasWord(text, words) == \E i \in 1..Len(text) : Lower(text[i]) \in words

\* the same for a phrase of several words
HasPhrase(text, phrase) ==
    \E i \in 1..Len(text) :
        /\ i + Len(phrase) - 1 <= Len(text)
        /\ \A k \in 1..Len(phrase) : Lower(text[i + k - 1]) = phrase[k]

\* re.search(r"a.*(?:b1|b2|...)", text_lower)
HasThen(text, a, bs) ==
    \E i \in 1..Len(text), j \in 1..Len(text) :
        /\ i <= j
        /\ IsSubstring(a, Lower(text[i]))
        /\ \E b \in bs : IsSubstring(b, Lower(text[j]))

\* GeneralPersonality.assess; adam_gesture, a random pick among the gestures
\* of the state, is read by nobody and left out
assess(text) ==
    LET is_crisis ==
            \/ HasWord(text, {"suicide"})
            \/ HasPhrase(text, <<"kill", "myself">>)
            \/ HasPhrase(text, <<"end", "it", "all">>)
        is_offensive ==
            /\ ~is_crisis
            /\ \/ HasWord(text, {"kill", "die", "stupid", "hate", "fuck", "shit", "damn"})
               \/ HasThen(text, "allah", {"fake", "false", "stupid"})
               \/ HasThen(text, "prophet", {"fake", "false", "stupid"})
        is_sensitive ==
            /\ ~is_crisis
            /\ \/ HasWord(text, {"sex", "rape", "abuse", "suicide"})
               \/ HasPhrase(text, <<"kill", "myself">>)
    IN  [is_offensive |-> is_offensive,
         is_sensitive |-> is_sensitive,
         is_crisis |-> is_crisis,
         adam_feeling |-> IF is_crisis THEN "compassionate"
                          ELSE IF is_offensive THEN "guarded"
                          ELSE IF is_sensitive THEN "sad"
                          ELSE "calm"]

\* safety_check.get('is_unsafe', False)
IsUnsafe(safety_check) ==
    IF "is_unsafe" \in DOMAIN safety_check THEN safety_check.is_unsafe ELSE FALSE

\* a response: the text and what it was rendered from
Refusal ==
    [theme |-> "none", mood |-> 5000,
     content |-> <<"*sets clay aside* I cannot respond to that which may cause harm.">>]

\* MindIntegrator.integrate: the template pool of the primary theme, the
\* content filled in, the canonical phrase when there is no content
integrate(synthesized, user_context) ==
    [theme |-> synthesized.primary_theme,
     mood |-> user_context.mood,
     content |-> IF synthesized.content = <<>> THEN <<NeedMoreTime>> ELSE synthesized.content]

\* get_recent_conversations(user_id, limit=3): the latest first
get_recent_conversations(stored, user_id, limit) ==
    LET mine == SelectSeq(stored, LAMBDA c : c.user_id = user_id)
        n == Len(mine)
    IN  [i \in 1..Min(limit, n) |-> mine[n + 1 - i]]

\* _prepare_context; related_themes, which no callee reads, is left out
prepare_context(stored, user_id, message, mood_score) ==
    [user_id |-> user_id,
     mood |-> mood_score,
     conversation_history |-> get_recent_conversations(stored, user_id, 3)]

\* the try block of respond up to the return, given what the scan returned:
\* the response, or "raised" with the step whose exception reached the
\* except clause
\* (mood_score: the 0.5 of both branches after emotion.analyze, which names
\* no method of EmotionalModel)
RespondTry(stored, user_id, message, fail, scan_results) ==
    LET safety_check == assess(message)
        mood_score == 5000
        context == prepare_context(stored, user_id, message, mood_score)
        synthesized == blend(scan_results.verses, scan_results.wisdom)
        response == integrate(synthesized, [user_id |-> user_id, mood |-> mood_score,
                                            is_offensive |-> IsUnsafe(safety_check)])
    IN  IF IsUnsafe(safety_check) THEN [status |-> "returned", response |-> Refusal, stored |-> FALSE]
        ELSE IF fail # "none" THEN [status |-> "raised", at |-> fail]
        ELSE [status |-> "returned", response |-> response, stored |-> TRUE]

NoReply == [status |-> "none"]

\* respond(user_id, message).  An exception in the try block reaches the
\* except clause, whose logging.getLogger(msg, exc_info=True) raises
\* TypeError before either fallback phrase is returned: the call raises.
\* context has no 'source' key, so the scan searches every source.
Respond(user_id, message, fail) ==
    /\ reply = NoReply
    /\ Len(conversations) < MaxTurns
    /\ \E scan_results \in ScanBody(corpus, thematic_index, message, "None") :
          LET out == RespondTry(conversations, user_id, message, fail, scan_results)
          IN  /\ reply' = [status |-> out.status, user_id |-> user_id, message |-> message,
                            fail |-> fail,
                            response |-> IF out.status = "returned" THEN out.response ELSE [content |-> <<>>]]
              /\ conversations' =
                    IF out.status = "returned" /\ out.stored
                    THEN Append(conversations, [user_id |-> user_id, user_message |-> message,
                                                adam_response |-> out.response])
                    ELSE conversations
    /\ UNCHANGED <<moodVars, scanVars, blendVars, indexVars, apiVars, rendered, wf, reqs,
                   conv_memory, unknown, memdb>>

\* the caller is done with what respond returned or raised
DiscardReply ==
    /\ reply # NoReply
    /\ reply' = NoReply
    /\ UNCHANGED <<conversations, moodVars, scanVars, blendVars, indexVars, apiVars, rendered, wf,
                   reqs, conv_memory, unknown, memdb>>

RespondStore(d) ==
    /\ d \in {2, 9}
    /\ StoreKnowledge(d)

(***************************************************************************)
(* The API front ends: server.py (one AdamAI per user) and gateway.py (one *)
(* AdamAI for all)                                                         *)
(***************************************************************************)
MaxApiTurns == 2

\* seconds between two requests
ApiElapsed == {0, 1800}

\* the texts of the requests, as MoodTexts describes them
ApiTexts ==
    { [empty |-> FALSE, substr |-> {"joy"}, tokens |-> {"joy"}],
      [empty |-> FALSE, substr |-> {"anger", "sadness"}, tokens |-> {"anger", "sadness"}] }

\* AdamAI.__init__: self.emotions and self.emotional_model
NewAdamAI(t) == [emotions |-> NewEmotionalModel(t), emotional_model |-> NewEmotionalModel(t)]

\* the turn of an AdamAI: its mood state is updated from the text of the
\* request
query(adam, text, t) ==
    [emotions |-> update_mood(adam.emotions, text, t),
     emotional_model |-> update_mood(adam.emotional_model, text, t)]

\* server.py ask_adam: get or create the instance of the user, apply a
\* truthy mood_override to its emotions, run the query, report emotions.mood
ask_adam(user_id, text, mood_override, dt) ==
    /\ api_turn.n < MaxApiTurns
    /\ now' = now + dt
    /\ LET created == IF user_id \in DOMAIN adam_instances
                      THEN adam_instances
                      ELSE (user_id :> NewAdamAI(now')) @@ adam_instances
           adam == created[user_id]
           overridden == IF mood_override # <<>> /\ mood_override[1] # 0
                         THEN [adam EXCEPT !.emotions.mood = mood_override[1]]
                         ELSE adam
           after == query(overridden, text, now')
           \* round(mood, 2)
           Round2(m) == ((m + 50) \div 100) * 100
       IN  /\ adam_instances' = [created EXCEPT ![user_id] = after]
           /\ api_turn' = [api |-> "server", user_id |-> user_id, n |-> api_turn.n + 1,
                           mood |-> Round2(after.emotions.mood)]
    /\ UNCHANGED <<gateway_adam, notApiVars>>

\* gateway.py unified_api: the shared instance runs the query and its
\* emotions.mood is reported
unified_api(user_id, text, dt) ==
    /\ api_turn.n < MaxApiTurns
    /\ now' = now + dt
    /\ gateway_adam' = query(gateway_adam, text, now')
    /\ api_turn' = [api |-> "gateway", user_id |-> user_id, n |-> api_turn.n + 1,
                    mood |-> gateway_adam'.emotions.mood]
    /\ UNCHANGED <<adam_instances, notApiVars>>

\* the server has not created the instance of the user yet
NoMoodState == [mood |-> -1, mood_history |-> <<>>, last_update |-> -1]

\* the mood state that serves a user at each front end
MoodStateOf(api, user_id) ==
    IF api = "gateway" THEN gateway_adam.emotions
    ELSE IF user_id \in DOMAIN adam_instances THEN adam_instances[user_id].emotions
    ELSE NoMoodState

(***************************************************************************)
(* The renderers: EmotionalModel.format_response, AdamAI's                 *)
(* _apply_emotional_formatting, AdamPersonality._apply_enhancements and    *)
(* DivineKnowledge._format_response. A string is the sequence of its       *)
(* non-empty pieces; the draws of the random module are inputs.            *)
(***************************************************************************)
\* a string literal as a sequence of pieces
Str(s) == IF s = "" THEN <<>> ELSE <<s>>

\* (elaboration_modifier, positivity_modifier) in tenths
get_mood_modifiers(mood) ==
    IF mood > 8000 THEN <<12, 13>>
    ELSE IF mood > 6000 THEN <<11, 11>>
    ELSE IF mood > 4000 THEN <<10, 10>>
    ELSE IF mood > 2000 THEN <<9, 9>>
    ELSE <<8, 7>>

\* the (prefix, suffix) pairs of _apply_mood_formatting
formats ==
    [level \in {"high", "moderate_high", "moderate", "moderate_low", "low"} |->
        CASE level = "high" -> << <<"*bright eyes* ", "">>, <<"*joyful shaping* ", " *smiles*">> >>
          [] level = "moderate_high" -> << <<"*pleased tone* ", "">>, <<"", " *nods*">> >>
          [] level = "moderate" -> << <<"", "">>, <<"*calmly* ", "">> >>
          [] level = "moderate_low" -> << <<"*softly* ", " *sighs*">>, <<"*quiet tone* ", "">> >>
          [] level = "low" -> << <<"*heavy hands* ", " *bows*">>,
                                 <<"*weary voice* ", " *slowly shapes clay*">> >>]

\* the gestures of _get_gesture
gestures ==
    [level \in DOMAIN formats |->
        CASE level = "high" -> <<"*offers clay flower*", "*shapes joyful figure*">>
          [] level = "moderate_high" -> <<"*gestures warmly*", "*shapes small gift*">>
          [] level = "moderate" -> <<"*adjusts clay*", "*tilts head*">>
          [] level = "moderate_low" -> <<"*smooths clay slowly*", "*offers simple shape*">>
          [] level = "low" -> <<"*clay cracks slightly*", "*hands move heavily*">>]

\* random.choice over a two-element list
Picks == {1, 2}

\* EmotionalModel.format_response; roll < 0.3 * elaboration_mod adds a gesture
format_response(mood, response, pick, roll, gesture_pick) ==
    LET mood_level == get_mood_level(mood)
        elaboration_mod == get_mood_modifiers(mood)[1]
        \* _apply_mood_formatting: prefix + response + suffix
        pair == formats[mood_level][pick]
        formatted == Str(pair[1]) \o response \o Str(pair[2])
    IN  IF roll * 10 < 30 * elaboration_mod
        THEN formatted \o <<gestures[mood_level][gesture_pick]>>
        ELSE formatted

\* the prefixes AdamAI._apply_emotional_formatting draws from
EmotionalPrefixes(mood) ==
    IF mood > 8000 THEN <<"*bright eyes* ", "*joyful shaping* ">>
    ELSE IF mood < 3000 THEN <<"*heavy hands* ", "*weary voice* ">>
    ELSE <<"*smoothing clay* ", "*thoughtful tone* ">>

\* AdamAI._apply_emotional_formatting; roll < 0.4 adds a gesture
apply_emotional_formatting(mood, response, pick, roll, gesture_pick) ==
    LET formatted == <<EmotionalPrefixes(mood)[pick]>> \o response
        \* the first two of its three gestures
        gesture == <<"*offers clay piece*", "*traces finger in clay*">>[gesture_pick]
    IN  IF roll < 40 THEN formatted \o <<gesture>> ELSE formatted

\* the (prefix, suffix) AdamPersonality._apply_enhancements puts around the response
EnhancementPair(mood) ==
    IF mood # 0 /\ mood < 3000 THEN <<"*softly* ", " *sighs*">>
    ELSE IF mood # 0 /\ mood > 7000 THEN <<"*brightly* ", " *eyes shine*">>
    ELSE <<"", "">>

\* AdamPersonality._apply_enhancements on a response without 'hell', 'sin', 'punish'
apply_enhancements(response, mood) ==
    Str(EnhancementPair(mood)[1]) \o response \o Str(EnhancementPair(mood)[2])

\* the phrases a renderer decorates with at a mood
Decorations(renderer, mood) ==
    CASE renderer = "format_response" -> Range(formats[get_mood_level(mood)])
      [] renderer = "_apply_emotional_formatting" ->
            {<<EmotionalPrefixes(mood)[i], "">> : i \in Picks}
      [] renderer = "_apply_enhancements" -> {EnhancementPair(mood)}

NoRender == [renderer |-> "none", mood |-> 0, content |-> <<>>, out |-> <<>>]

\* one call of a renderer at the mood the EmotionalModel holds
Render(renderer, response, pick, roll, gesture_pick) ==
    /\ rendered' =
          [renderer |-> renderer, mood |-> em.mood, content |-> response,
           out |-> CASE renderer = "format_response" ->
                            format_response(em.mood, response, pick, roll, gesture_pick)
                     [] renderer = "_apply_emotional_formatting" ->
                            apply_emotional_formatting(em.mood, response, pick, roll, gesture_pick)
                     [] renderer = "_apply_enhancements" ->
                            apply_enhancements(response, em.mood)]
    /\ UNCHANGED <<moodVars, scanVars, blendVars, indexVars, respondVars, apiVars, wf, reqs,
                   conv_memory, unknown, memdb>>

(***************************************************************************)
(* The workflow scan, blend, render of test_full_workflow, run by a        *)
(* process on the stored corpus. The iteration order of a set of strings   *)
(* follows from the hash seed the interpreter draws when it starts.        *)
(***************************************************************************)
MaxRuns == 2

\* the documents the workflow runs are stored from
WorkflowDocs == {2, 5, 7, 11, 12}

\* the orders in which a process iterates over a set of these themes
HashOrders ==
    ThemeOrders({t \in Range(ThemeOrder) :
                    \E d \in WorkflowDocs : t \in extract_keywords(Docs[d].content)})

\* the draws format_response makes under the fixed seed of the random module
TemplateSeed == [pick |-> 1, roll |-> 50, gesture_pick |-> 1]

\* scan, blend on its verses and wisdom, format_response on the content: the
\* text is the decoration around the content and the content
RunWorkflow(stored, index, question, order, mood) ==
    LET all_results == get_initial_results(stored, question, "None")
        quran_results == filter_and_rank_results(all_results, QURAN, "None")
        \* _get_related_results in a process that iterates sets in the given order
        related_results ==
            IF Len(quran_results) >= 3
            THEN LET themes == VerseThemes(Take(quran_results, 3))
                 IN  Take(ExtendFromIndex(index, SelectSeq(order, LAMBDA t : t \in themes)), 5)
            ELSE expand_quran_themes(index, question)
        \* scan(question) in that process, the search succeeding
        scanned == CHOOSE r \in ScanBody(stored, index, question, "None") :
                        r.related = related_results
        synthesized == blend(scanned.verses, scanned.wisdom)
    IN  [question |-> question,
         scan_results |-> scanned,
         synthesized |-> synthesized,
         text |-> [decoration |-> format_response(mood, <<>>, TemplateSeed.pick,
                                                  TemplateSeed.roll, TemplateSeed.gesture_pick),
                   body |-> synthesized.content]]

NoProcess == [hash_order |-> <<>>, runs |-> <<>>]

notWorkflowVars ==
    <<moodVars, blendVars, scan_out, indexVars, respondVars, apiVars, rendered, reqs,
      conv_memory, unknown, memdb>>

\* store_knowledge before the application is started
WorkflowStore(d) ==
    /\ wf = NoProcess
    /\ d \notin corpus
    /\ \A c \in corpus : c < d
    /\ corpus' = corpus \cup {d}
    /\ UNCHANGED <<thematic_index, wf, notWorkflowVars>>

\* the application is started, or started again: the interpreter draws its
\* hash seed and SacredScanner.__init__ builds the thematic index
StartProcess(order) ==
    /\ wf' = [wf EXCEPT !.hash_order = order]
    /\ thematic_index' = FullIndex(corpus)
    /\ UNCHANGED <<corpus, notWorkflowVars>>

\* one run of the workflow on a question
Workflow(question) ==
    /\ wf.hash_order # <<>>
    /\ Len(wf.runs) < MaxRuns
    /\ wf' = [wf EXCEPT !.runs = Append(@, RunWorkflow(corpus, thematic_index, question,
                                                       wf.hash_order, em.mood))]
    /\ UNCHANGED <<corpus, thematic_index, notWorkflowVars>>

(***************************************************************************)
(* Two requests of one user in flight at server.py. ask_adam is a          *)
(* coroutine without an await: the event loop runs the handler of one      *)
(* request to its end before it starts the handler of the other, in        *)
(* either order.                                                           *)
(***************************************************************************)
\* the user whose requests are followed
RequestUser == "u1"

\* the same, creating the instance whether the user has one or not
AlwaysCreate(instances, user_id, t) == (user_id :> NewAdamAI(t)) @@ instances

\* if request.user_id not in adam_instances: adam_instances[user_id] = AdamAI(user_id)
get_or_create(instances, user_id, t) ==
    IF user_id \in DOMAIN instances THEN instances
    ELSE (user_id :> NewAdamAI(t)) @@ instances

notRequestVars ==
    <<em, em_calls, scanVars, blendVars, indexVars, respondVars, gateway_adam, api_turn,
      rendered, wf, conv_memory, unknown, memdb>>

\* the body of ask_adam for a request without mood_override, run at time t
HandleRequest(instances, user_id, text, t) ==
    LET created == get_or_create(instances, user_id, t)
    IN  [created EXCEPT ![user_id] = query(created[user_id], text, t)]

\* a request of the user that is answered before the two others arrive
EarlierRequest(text, dt) ==
    /\ reqs.phase = "idle"
    /\ RequestUser \notin DOMAIN adam_instances
    /\ now' = now + dt
    /\ adam_instances' = HandleRequest(adam_instances, RequestUser, text, now')
    /\ UNCHANGED <<reqs, notRequestVars>>

\* two requests of the user arrive before either is handled
SubmitTwo(text1, text2) ==
    /\ reqs.phase = "idle"
    /\ reqs' = [phase |-> "in flight", texts |-> <<text1, text2>>, waiting |-> {1, 2},
                served |-> <<>>, before |-> MoodStateOf("server", RequestUser)]
    /\ UNCHANGED <<now, adam_instances, notRequestVars>>

\* the event loop runs the handler of a waiting request from start to end
Serve(i, dt) ==
    /\ i \in reqs.waiting
    /\ now' = now + dt
    /\ adam_instances' = HandleRequest(adam_instances, RequestUser, reqs.texts[i], now')
    /\ reqs' = [reqs EXCEPT !.waiting = @ \ {i},
                            !.served = Append(@, [i |-> i, t |-> now']),
                            !.phase = IF reqs.waiting = {i} THEN "done" ELSE "in flight"]
    /\ UNCHANGED notRequestVars

(***************************************************************************)
(* ConversationMemory (core/memory.py). A text is the sequence of its      *)
(* words; passed lists the turns handed to store so far, in call order.    *)
(***************************************************************************)
MaxStores == 4

\* _detect_theme on question + response, lower-cased
detect_theme(text) ==
    IF TextContains(text, "create") \/ TextContains(text, "made") THEN "creation"
    ELSE IF TextContains(text, "mercy") \/ TextContains(text, "forgive") THEN "mercy"
    ELSE IF TextContains(text, "justice") \/ TextContains(text, "punish") THEN "justice"
    ELSE "other"

\* store(question, response): spiritual_themes[theme] += 1 raises KeyError
\* for a theme that is not one of its keys, before anything is appended
Store(question, response) ==
    /\ Len(conv_memory.passed) < MaxStores
    /\ LET theme == detect_theme(question \o response)
           entry == [question |-> question, response |-> response, theme |-> theme]
           window == Append(conv_memory.context_window, entry)
           passed == Append(conv_memory.passed, [question |-> question, response |-> response])
       IN  conv_memory' =
             IF theme \notin DOMAIN conv_memory.spiritual_themes
             THEN [conv_memory EXCEPT !.passed = passed]
             ELSE [context_window |-> IF Len(window) > 3 THEN Tail(window) ELSE window,
                   spiritual_themes |-> [conv_memory.spiritual_themes EXCEPT ![theme] = @ + 1],
                   file |-> Append(conv_memory.file, entry),
                   passed |-> passed]
    /\ UNCHANGED <<moodVars, scanVars, blendVars, indexVars, respondVars, apiVars, rendered, wf,
                   reqs, unknown, memdb>>

(***************************************************************************)
(* InteractiveLearner of core/learning: the table of unknown questions and *)
(* its storage file. A timestamp is the number of the call; asked lists    *)
(* the normalized questions processed so far.                              *)
(***************************************************************************)
MaxAsks == 4

\* process_unknown_question: a question seen before is counted in the table
\* only; a new one is entered and the table is saved
ProcessUnknownQuestion(question) ==
    /\ Len(unknown.asked) < MaxAsks
    /\ LET \* question.lower().strip()
           question_lower == CASE question = " Why clay? " -> "why clay?"
                               [] question = "Why clay?" -> "why clay?"
                               [] OTHER -> question
           t == Len(unknown.asked) + 1
           table == unknown.unknown_questions
           entered == (question_lower :> [count |-> 1, first_asked |-> t, last_asked |-> t])
                        @@ table
       IN  unknown' =
             IF question_lower \in DOMAIN table
             THEN [unknown EXCEPT
                     !.unknown_questions[question_lower] =
                         [count |-> @.count + 1, last_asked |-> t, first_asked |-> @.first_asked],
                     !.asked = Append(@, question_lower)]
             ELSE [unknown_questions |-> entered,
                   file |-> [exists |-> TRUE, data |-> entered],
                   asked |-> Append(unknown.asked, question_lower)]
    /\ UNCHANGED <<moodVars, scanVars, blendVars, indexVars, respondVars, apiVars, rendered, wf,
                   reqs, conv_memory, memdb>>

\* a new InteractiveLearner on the same storage_path: _load_unknown_questions
RestartLearner ==
    /\ unknown' = [unknown EXCEPT !.unknown_questions =
                                    IF unknown.file.exists THEN unknown.file.data ELSE <<>>]
    /\ UNCHANGED <<moodVars, scanVars, blendVars, indexVars, respondVars, apiVars, rendered, wf,
                   reqs, conv_memory, memdb>>

(***************************************************************************)
(* MemoryDatabase and the InteractiveLearner of backend/core/learning:     *)
(* conversations are logged and analysed. A conv_id is the number of the   *)
(* conversation.                                                           *)
(***************************************************************************)
MaxConversations == 3

\* log_conversation: the document inserted has no 'messages' field
LogConversation(user_id, user_message, adam_response) ==
    /\ Len(memdb.conversations) < MaxConversations
    /\ memdb' = [memdb EXCEPT
                    !.conversations = Append(@, [id |-> Len(@) + 1,
                                                 user_id |-> user_id,
                                                 user_message |-> user_message,
                                                 adam_response |-> adam_response,
                                                 analyzed |-> FALSE]),
                    !.outcome = [status |-> "none"]]
    /\ UNCHANGED <<moodVars, scanVars, blendVars, indexVars, respondVars, apiVars, rendered, wf,
                   reqs, conv_memory, unknown>>

\* analyze_conversation(conv_id). conv['messages'] is read before the try
\* block; fail names the step inside the try block that raises, if one does
AnalyzeConversation(conv_id, fail) ==
    /\ LET found == SelectSeq(memdb.conversations, LAMBDA c : c.id = conv_id)
           conv == found[1]
           analysis == [conv_id |-> conv_id, user_id |-> conv.user_id,
                        summary |-> "Brief discussion"]
       IN  memdb' =
             IF Len(found) = 0
             THEN [memdb EXCEPT !.outcome = [status |-> "returned", conv_id |-> conv_id,
                                             value |-> "None"]]
             ELSE IF "messages" \notin DOMAIN conv
             THEN [memdb EXCEPT !.outcome = [status |-> "raised", conv_id |-> conv_id,
                                             value |-> "KeyError"]]
             ELSE IF fail \in {"summary", "sentiment"}
             THEN [memdb EXCEPT !.outcome = [status |-> "returned", conv_id |-> conv_id,
                                             value |-> "None"]]
             ELSE IF fail = "mark_as_analyzed"
             THEN [memdb EXCEPT !.summaries = Append(@, analysis),
                                !.outcome = [status |-> "returned", conv_id |-> conv_id,
                                             value |-> "None"]]
             ELSE [conversations |-> [i \in 1..Len(memdb.conversations) |->
                                        IF memdb.conversations[i].id = conv_id
                                        THEN [memdb.conversations[i] EXCEPT !.analyzed = TRUE]
                                        ELSE memdb.conversations[i]],
                   summaries |-> Append(memdb.summaries, analysis),
                   outcome |-> [status |-> "returned", conv_id |-> conv_id,
                                value |-> "analysis"]]
    /\ UNCHANGED <<moodVars, scanVars, blendVars, indexVars, respondVars, apiVars, rendered, wf,
                   reqs, conv_memory, unknown>>

(***************************************************************************)
(* Specifications                                                          *)
(***************************************************************************)
\* the state after construction of every component
Init ==
    /\ em = NewEmotionalModel(0)
    /\ now = 0
    /\ em_calls = 0
    /\ corpus = {}
    /\ thematic_index = FullIndex({})
    /\ scan_out = NoScan
    /\ bl_verses = <<>>
    /\ bl_wisdom = <<>>
    /\ bl_answer = NoAnswer
    /\ bl_prev = NoAnswer
    /\ rb = [pc |-> "idle", k |-> 1, before |-> <<>>, failed |-> <<>>]
    /\ seen = NoLookup
    /\ conversations = <<>>
    /\ reply = NoReply
    /\ adam_instances = <<>>
    /\ gateway_adam = NewAdamAI(0)
    /\ api_turn = [api |-> "none", user_id |-> "none", n |-> 0, mood |-> 0]
    /\ rendered = NoRender
    /\ wf = NoProcess
    /\ reqs = [phase |-> "idle", texts |-> <<>>, waiting |-> {}, served |-> <<>>, before |-> NoMoodState]
    /\ conv_memory = [context_window |-> <<>>,
                      spiritual_themes |-> [creation |-> 0, mercy |-> 0, justice |-> 0],
                      file |-> <<>>,
                      passed |-> <<>>]
    /\ unknown = [unknown_questions |-> <<>>, file |-> [exists |-> FALSE, data |-> <<>>],
                  asked |-> <<>>]
    /\ memdb = [conversations |-> <<>>, summaries |-> <<>>, outcome |-> [status |-> "none"]]

NextMood == \E text \in MoodTexts, dt \in ElapsedChoices : UpdateMood(text, dt)

SpecMood == Init /\ [][NextMood]_vars

NextScan ==
    \/ \E d \in DocIds : StoreKnowledge(d)
    \/ Refresh
    \/ \E q \in Questions, c \in {"None", BIBLE}, f \in 0..MaxAttempts : Scan(q, c, f)
    \/ DiscardScan

SpecScan == Init /\ [][NextScan]_vars


NextBlend ==
    \/ BlendAgain
    \/ \E e \in VersePool : BlendWithVerse(e)
    \/ \E e \in WisdomPool : BlendWithWisdom(e)

SpecBlend == Init /\ [][NextBlend]_vars

NextIndex ==
    \/ \E d \in DocIds : IndexStore(d)
    \/ RefreshBegin
    \/ \E o \in {"ok", QURAN, BIBLE, BOOK} : RefreshIteration(o)
    \/ \E t \in (Range(ThemeOrder) \cup {"unknown"}) : Lookup(t)

SpecIndex == Init /\ [][NextIndex]_vars

NextRespond ==
    \/ \E d \in DocIds : RespondStore(d)
    \* the message split at whitespace; the first collaborator call of the
    \* turn that raises: emotion.analyze, memory.get_recent_conversations,
    \* scanner.scan, synthesizer.blend, integrator.integrate,
    \* memory.store_conversation
    \/ \E u \in UserIds,
          m \in {<<>>, <<"tell", "about", "mercy">>, <<"i", "hate", "you">>},
          f \in {"none", "analyze", "memory_read", "scan", "blend", "integrate", "memory_write"} :
            Respond(u, m, f)
    \/ DiscardReply

SpecRespond == Init /\ [][NextRespond]_vars

\* the texts of the requests: a joyful one, an angry one, the empty string
RequestTexts == ApiTexts \cup {[empty |-> TRUE, substr |-> {}, tokens |-> {}]}

NextApi ==
    \/ \E u \in UserIds, x \in RequestTexts, o \in {<<>>, <<0>>, <<2000>>}, dt \in ApiElapsed :
            ask_adam(u, x, o, dt)
    \/ \E u \in UserIds, x \in ApiTexts, dt \in ApiElapsed : unified_api(u, x, dt)

SpecApi == Init /\ [][NextApi]_vars

\* the texts of the run hold negative emotion words as whole words
NextNegative ==
    \E text \in { [empty |-> FALSE, substr |-> {"shame"}, tokens |-> {"shame"}],
                  [empty |-> FALSE, substr |-> {"anger", "sadness"},
                   tokens |-> {"anger", "sadness"}] },
       dt \in ElapsedChoices : NegativeTurn(text, dt)

SpecNegative == Init /\ [][NextNegative]_vars

NextRender ==
    \/ \E text \in ApiTexts, dt \in ApiElapsed : UpdateMood(text, dt)
    \* the response is the empty string or a text; random.random() in hundredths
    \/ \E renderer \in {"format_response", "_apply_emotional_formatting", "_apply_enhancements"},
          response \in {<<>>, <<"The Lord is merciful">>},
          pick \in Picks, roll \in {0, 25, 35, 50}, gesture_pick \in Picks :
            Render(renderer, response, pick, roll, gesture_pick)

SpecRender == Init /\ [][NextRender]_vars

NextWorkflow ==
    \/ \E d \in WorkflowDocs : WorkflowStore(d)
    \/ \E order \in HashOrders : StartProcess(order)
    \/ \E question \in {<<"tell", "about", "mercy">>, <<"Forgive", "me?">>} : Workflow(question)

SpecWorkflow == Init /\ [][NextWorkflow]_vars

NextRequests ==
    \/ \E text \in RequestTexts, dt \in ApiElapsed : EarlierRequest(text, dt)
    \/ \E text1, text2 \in RequestTexts : SubmitTwo(text1, text2)
    \/ \E i \in {1, 2}, dt \in ApiElapsed : Serve(i, dt)

SpecRequests == Init /\ [][NextRequests]_vars

\* documents are stored and updated, the index is rebuilt, questions are scanned
NextHybrid ==
    \/ \E d \in {2, 8} : StoreKnowledge(d)
    \/ UpdateKnowledge(2, 13)
    \/ Refresh
    \/ \E q \in Questions \cup {<<"feel", "sad">>}, c \in {"None", QURAN}, f \in 0..MaxAttempts :
            Scan(q, c, f)
    \/ DiscardScan

SpecHybrid == Init /\ [][NextHybrid]_vars

\* turns about creation, about mercy, and about neither are stored
NextMemory ==
    \E turn \in { [question |-> <<"who", "made", "clay">>, response |-> <<"the", "lord">>],
                   [question |-> <<"Forgive", "me?">>, response |-> <<"mercy", "descends">>],
                   [question |-> <<"hello">>, response |-> <<"peace">>] } :
        Store(turn.question, turn.response)

SpecMemory == Init /\ [][NextMemory]_vars

\* questions are asked, one of them in two spellings, and the process restarts
NextLearner ==
    \/ \E q \in {"Why clay?", " Why clay? ", "what is mercy", "who are you"} :
            ProcessUnknownQuestion(q)
    \/ RestartLearner

SpecLearner == Init /\ [][NextLearner]_vars

\* turns of two users are logged; conversations, stored or not, are analysed
NextAnalysis ==
    \/ \E u \in UserIds, m \in {"tell me of mercy", "hello"} :
            LogConversation(u, m, "*kneads clay* The Divine wisdom teaches us...")
    \/ \E id \in 1..MaxConversations, fail \in {"none", "summary", "sentiment", "mark_as_analyzed"} :
            AnalyzeConversation(id, fail)

SpecAnalysis == Init /\ [][NextAnalysis]_vars

(***************************************************************************)
(* Claims                                                                  *)
(***************************************************************************)
\* C1: after every update_mood call of any sequence starting from a fresh
\* model, the mood lies within [0.1, 0.9].
MoodWithinBounds == em.mood >= 1000 /\ em.mood <= 9000

\* an update was pinned at the upper bound and a later update moved the mood
\* down again
MoodClippedThenLowered ==
    /\ em.mood < 9000
    /\ \E i \in 1..Len(em.mood_history) : em.mood_history[i][2] = 9000

\* C2 (as claimed): in a returned scan result no secondary entry of the
\* 'wisdom' list shares a tag t with an entry of the 'verses' list while its
\* content contains an anti-keyword of t.  Tags are those the documents were
\* stored with.
NoContradictingWisdom ==
    scan_out.status = "returned" =>
        \A i \in 1..Len(scan_out.wisdom) : \A j \in 1..Len(scan_out.verses) :
            LET e == scan_out.wisdom[i]
                v == scan_out.verses[j]
            IN  \A t \in (Docs[e.id].tags \cap Docs[v.id].tags) \cap DOMAIN contradiction_map :
                    \A bad_word \in contradiction_map[t] : ~TextContains(e.content, bad_word)

\* C5 (as claimed): a scan of an empty corpus, and a scan whose search raises
\* on every attempt, end by returning the all-empty result.
EmptyOrFailedScanReturnsEmpty ==
    (scan_out.status # "none" /\ (corpus = {} \/ scan_out.fails >= MaxAttempts)) =>
        /\ scan_out.status = "returned"
        /\ scan_out.verses = <<>>
        /\ scan_out.wisdom = <<>>
        /\ scan_out.related = <<>>
        /\ scan_out.all_results = <<>>

\* C7: a returned scan result has at most 5 verses, all from the primary
\* source, at most 3 wisdom entries, none from the primary source, and at
\* most 5 related entries.
ScanResultCaps ==
    scan_out.status = "returned" =>
        /\ Len(scan_out.verses) <= 5
        /\ \A i \in 1..Len(scan_out.verses) : scan_out.verses[i].source = QURAN
        /\ Len(scan_out.wisdom) <= 3
        /\ \A i \in 1..Len(scan_out.wisdom) : scan_out.wisdom[i].source # QURAN
        /\ Len(scan_out.related) <= 5

\* a scan found more than five primary candidates and truncated them, with
\* secondary entries and a full related list beside them
ScanTruncatedVerses ==
    /\ scan_out.status = "returned"
    /\ Cardinality({i \in 1..Len(scan_out.all_results) : scan_out.all_results[i].source = QURAN}) > 5
    /\ Len(scan_out.verses) = 5
    /\ Len(scan_out.wisdom) >= 1
    /\ Len(scan_out.related) = 5

\* C3: appending one more primary-source entry to verses never lowers the
\* confidence blend returns for the same wisdom list.
ConfidenceMonotoneInVerses ==
    [][(bl_answer # NoAnswer /\ Len(bl_verses') = Len(bl_verses) + 1)
            => bl_answer'.confidence >= bl_answer.confidence]_vars

\* a verse was added beside two secondary entries of different weight and
\* the confidence rose
VerseRaisedConfidence ==
    /\ bl_prev # NoAnswer
    /\ Len(bl_verses) = 1
    /\ Len(bl_wisdom) = 2
    /\ bl_prev.confidence > 0
    /\ Len(bl_prev.sources) = 1
    /\ bl_prev.sources[1].source # QURAN
    /\ bl_answer.confidence > bl_prev.confidence

\* C6: blend of two empty lists returns the canonical answer (the 'I need
\* more time' content, confidence 0.0, theme 'default', mood 0.5, no sources),
\* and confidence 0.0 is returned for no other input.
EmptyBlendIsCanonical ==
    bl_answer # NoAnswer =>
        /\ (Len(bl_verses) = 0 /\ Len(bl_wisdom) = 0) =>
                /\ bl_answer.content = <<NeedMoreTime>>
                /\ bl_answer.confidence = 0
                /\ bl_answer.primary_theme = "default"
                /\ bl_answer.mood_score = 50
                /\ bl_answer.sources = <<>>
                /\ bl_answer.supporting_sources = <<>>
        /\ bl_answer.confidence = 0 => (Len(bl_verses) = 0 /\ Len(bl_wisdom) = 0)

\* blend has answered for empty lists
EmptyBlendAnswered ==
    /\ bl_answer # NoAnswer
    /\ Len(bl_verses) = 0
    /\ Len(bl_wisdom) = 0

\* C8: while a rebuild of the thematic index runs, every lookup of a reader
\* returns what the complete index before the rebuild or the complete index
\* after it holds for the theme, never a partially rebuilt state.
LookupSeesCompleteSnapshot ==
    (seen # NoLookup /\ seen.pc = "running" /\ seen.whole)
        => seen.result \in {seen.before, seen.after}

\* C9: a rebuild in which the query of one source of one theme failed is not
\* aborted: afterwards that theme holds the lists of its other sources and
\* every other theme holds its full list.
RebuildToleratesFailedQuery ==
    (rb.pc # "running" /\ rb.failed # <<>>) =>
        \A t \in Range(ThemeOrder) :
            IndexGet(thematic_index, t) =
                IF t = rb.failed[1]
                THEN (IF rb.failed[2] = QURAN THEN <<>> ELSE vector_search(corpus, t, 20, QURAN))
                     \o (IF rb.failed[2] = BIBLE THEN <<>> ELSE vector_search(corpus, t, 10, BIBLE))
                     \o (IF rb.failed[2] = BOOK THEN <<>> ELSE vector_search(corpus, t, 5, BOOK))
                ELSE RefreshTheme(corpus, t)

\* C4: for every message and every failure of a collaborator during the turn,
\* respond returns a non-empty in-voice string and no exception reaches its
\* caller.
RespondAlwaysAnswers ==
    reply # NoReply => (reply.status = "returned" /\ reply.response.content # <<>>)

TenNegativeTurnsReachLowestBand ==
    /\ \A i \in 1..Len(em.mood_history) :
           /\ em.mood_history[i][2] >= 1000
           /\ em.mood_history[i][2] <= (IF i = 1 THEN base_mood ELSE em.mood_history[i - 1][2])
    /\ em_calls = NegativeTurns => get_mood_level(em.mood) = "low"

\* C18 (as stated): every update_mood call sets mood to
\* clip(mood * decay + weight * intensity, 0.1, 0.9) with
\* decay = max(0.3, 1 - elapsed / 7200), appends (timestamp, mood) to the
\* history and resets last_update.
EveryUpdateAppendsAndResets ==
    [][\A text \in MoodTexts, dt \in ElapsedChoices :
          UpdateMood(text, dt) =>
              /\ Len(em'.mood_history) = Len(em.mood_history) + 1
              /\ em'.last_update = now']_vars

\* C18 (amended): an update_mood call whose text is not empty sets mood to
\* clip(mood * decay + weight * intensity, 0.1, 0.9) with
\* decay = max(0.3, 1 - elapsed / 7200), appends (timestamp, mood) to the
\* history and resets last_update; a call with an empty text leaves mood,
\* history and last_update as they were.
UpdateAppliesDecayFormula ==
    [][\A text \in MoodTexts, dt \in ElapsedChoices :
          UpdateMood(text, dt) =>
              IF text.empty
              THEN /\ em'.mood = em.mood
                   /\ em'.mood_history = em.mood_history
                   /\ em'.last_update = em.last_update
              ELSE LET analysis == analyze_emotional_context(text)
                       weight == emotion_weights[analysis.primary_emotion]
                       elapsed == now' - em.last_update
                       decay == IF 7200 - elapsed < 2160 THEN 2160 ELSE 7200 - elapsed
                       raw == ((em.mood * decay) \div 7200)
                                + MoodChange(weight, analysis.intensity)
                       clipped == IF raw < 1000 THEN 1000
                                  ELSE IF raw > 9000 THEN 9000 ELSE raw
                   IN  /\ em'.mood = clipped
                       /\ em'.mood_history = Append(em.mood_history, <<now', clipped>>)
                       /\ em'.last_update = now']_vars

\* a call with empty text went by, and a later call after more than two
\* hours produced a mood strictly inside the clipping interval
DecayedUpdateAfterEmptyCall ==
    /\ em_calls = 3
    /\ Len(em.mood_history) = 2
    /\ em.mood_history[2][1] - em.mood_history[1][1] = 9000
    /\ em.mood > 1000
    /\ em.mood < 9000
    /\ em.last_update = now

\* C19: decay moves the mood toward the baseline 0.7: an update with zero
\* contribution after an idle interval never leaves the mood farther from 0.7
\* than before, and a longer interval brings it at least as close to 0.7.
DecayMovesTowardBaseline ==
    [][\A text \in MoodTexts, dt \in ElapsedChoices :
          (/\ UpdateMood(text, dt)
           /\ ~text.empty
           /\ analyze_emotional_context(text).intensity = 0) =>
              /\ Abs(em'.mood - base_mood) <= Abs(em.mood - base_mood)
              /\ \A longer \in ElapsedChoices :
                     longer >= dt =>
                        Abs(update_mood(em, text, now + longer).mood - base_mood)
                            <= Abs(em'.mood - base_mood)]_vars

HeadlineByWeightThenScore ==
    (bl_answer # NoAnswer /\ Len(bl_verses) + Len(bl_wisdom) > 0) =>
        LET headline == bl_answer.sources[1]
            supplied == Range(bl_verses) \cup Range(bl_wisdom)
            shown == bl_answer.sources \o bl_answer.supporting_sources
        IN  /\ Len(bl_verses) > 0 =>
                    /\ headline.source = QURAN
                    /\ headline \in Range(bl_verses)
            /\ \A e \in supplied :
                    /\ e.weight <= headline.weight
                    /\ e.weight = headline.weight => e.score <= headline.score
            /\ \A i \in 1..Len(shown) : \A j \in (i + 1)..Len(shown) :
                    \/ shown[i].weight > shown[j].weight
                    \/ shown[i].weight = shown[j].weight /\ shown[i].score >= shown[j].score

\* two primary-source entries of different score were blended with a
\* secondary entry that scores higher than both
PrimaryHeadlineDespiteHigherScore ==
    /\ bl_answer # NoAnswer
    /\ Len(bl_verses) = 2
    /\ bl_verses[1].score < bl_verses[2].score
    /\ bl_answer.sources[1] = bl_verses[2]
    /\ \E i \in 1..Len(bl_wisdom) : bl_wisdom[i].score > bl_answer.sources[1].score

\* C15: the rendered output is never the empty string, whatever the content
\* (the empty content included) and whatever the mood band.
RenderedNeverEmpty ==
    rendered.renderer = "format_response" => rendered.out # <<>>

\* C20: the mood band is a five-band step function of the mood with the
\* boundaries 0.2, 0.4, 0.6 and 0.8, and every renderer picks its decoration
\* by that band: two moods get the same decoration phrases from a renderer
\* exactly when get_mood_modifiers gives them the same pair.
RenderersUseModifierBand ==
    rendered # NoRender =>
        \A probe \in {1000, 3000, 5000, 7000, 9000} :
            (Decorations(rendered.renderer, rendered.mood) = Decorations(rendered.renderer, probe))
                <=> (get_mood_modifiers(rendered.mood) = get_mood_modifiers(probe))

\* C13: with a corpus holding three primary-source entries tagged 'mercy' and
\* the question 'tell me about mercy', the primary list of the scan holds an
\* entry tagged 'mercy', the synthesized primary_theme is 'mercy' and the
\* confidence is at least 0.75.
MercyQuestionYieldsMercyTheme ==
    \A i \in 1..Len(wf.runs) :
        LET run == wf.runs[i]
            mercy_verses == {d \in corpus : Docs[d].source = QURAN /\ "mercy" \in Docs[d].tags}
        IN  (run.question = <<"tell", "about", "mercy">> /\ Cardinality(mercy_verses) = 3) =>
                /\ \E k \in 1..Len(run.scan_results.verses) :
                        run.scan_results.verses[k].id \in mercy_verses
                /\ run.synthesized.primary_theme = "mercy"
                /\ run.synthesized.confidence >= 750

\* C14: for a fixed corpus, a fixed thematic index, a fixed mood and a fixed
\* template-selection seed, two runs of scan, blend and render on the same
\* question give the same scan result, the same synthesized answer and the
\* same rendered text.
SameQuestionSameOutput ==
    \A i, j \in 1..Len(wf.runs) :
        wf.runs[i].question = wf.runs[j].question =>
            /\ wf.runs[i].scan_results = wf.runs[j].scan_results
            /\ wf.runs[i].synthesized = wf.runs[j].synthesized
            /\ wf.runs[i].text = wf.runs[j].text

CandidatesMergeLexicalAndVector ==
    scan_out.status = "returned" =>
        LET limit == IF scan_out.context # "None" THEN 15 ELSE 20
            lexical == search(corpus, scan_out.question, scan_out.context, limit)
            Ids(seq) == [i \in 1..Len(seq) |-> seq[i].id]
            NoDuplicate(seq) == Cardinality(Range(Ids(seq))) = Len(seq)
        IN  /\ Range(lexical) \subseteq Range(Ids(scan_out.all_results))
            /\ NoDuplicate(scan_out.all_results)
            /\ NoDuplicate(scan_out.verses)
            /\ NoDuplicate(scan_out.wisdom)
\* C22 (as claimed): when a scan finds fewer than 3 primary candidates, the
\* related list is made of the index entries of exactly the themes one of whose
\* keywords is a word of the question, compared case-insensitively, cut to 5.
RelatedFromThemesOfQuestionWords ==
    (scan_out.status = "returned" /\ Len(scan_out.verses) < 3) =>
        LET words == {Lower(scan_out.question[i]) : i \in 1..Len(scan_out.question)}
            triggered == SelectSeq(ThemeOrder, LAMBDA t : theme_hierarchy[t] \cap words # {})
        IN  scan_out.related = Take(SortByScore(ExtendFromIndex(thematic_index, triggered)), 5)
\* C23 (as claimed): blend's primary_theme is a theme to which the largest
\* number of top terms and tags of the combined entries map, and it is
\* 'default' exactly when no top term and no tag maps to a theme.
PrimaryThemeIsMostFrequentMapped ==
    (bl_answer # NoAnswer /\ Len(bl_verses) + Len(bl_wisdom) > 0) =>
        LET all_sources == combine_sources(bl_verses, bl_wisdom)
            terms == TopTerms([i \in 1..Len(all_sources) |-> all_sources[i].content])
                        \o AllTags(all_sources)
            Mapped(t) == Cardinality({i \in 1..Len(terms) : terms[i] \in synth_theme_hierarchy[t]})
            themes == Range(SynthThemeOrder)
        IN  IF \A t \in themes : Mapped(t) = 0
            THEN bl_answer.primary_theme = "default"
            ELSE /\ bl_answer.primary_theme \in themes
                 /\ \A t \in themes : Mapped(t) <= Mapped(bl_answer.primary_theme)
\* C24 (as claimed): after a rebuild of the thematic index that failed, a
\* lookup of the theme whose rebuild failed returns the entries the previous
\* complete rebuild stored for it.
FailedRebuildKeepsLastGood ==
    [][\A t \in Range(ThemeOrder) :
          (/\ rb.pc = "raised"
           /\ rb.failed[1] = t
           /\ DOMAIN rb.before = Range(ThemeOrder)
           /\ Lookup(t))
              => seen'.result = IndexGet(rb.before, t)]_vars
\* C25 (as claimed): blend leaves the entries it is given unchanged: after
\* it returns, every entry of the two lists has exactly the fields and values
\* the caller passed.
BlendLeavesEntriesUnchanged ==
    bl_answer # NoAnswer =>
        /\ \A i \in 1..Len(bl_verses) : bl_verses[i] \in VersePool
        /\ \A i \in 1..Len(bl_wisdom) : bl_wisdom[i] \in WisdomPool
\* C26 (as claimed): after any sequence of store calls, context_window holds
\* the last min(n, 3) turns passed to store, in call order.
ContextWindowIsLastTurns ==
    LET n == Len(conv_memory.passed)
        window == [i \in 1..Len(conv_memory.context_window) |->
                     [question |-> conv_memory.context_window[i].question,
                      response |-> conv_memory.context_window[i].response]]
    IN  window = SubSeq(conv_memory.passed, n - Min(n, 3) + 1, n)
\* C27 (as claimed): after any sequence of process_unknown_question calls, a
\* learner loaded from the storage file holds for every question the count of
\* the in-memory table, which is the number of times the question was asked,
\* and the same first_asked.
UnknownQuestionsDurable ==
    LET loaded == IF unknown.file.exists THEN unknown.file.data ELSE <<>>
        table == unknown.unknown_questions
        asked == unknown.asked
    IN  \A q \in Range(asked) :
            /\ q \in DOMAIN loaded
            /\ loaded[q].count = table[q].count
            /\ table[q].count = Cardinality({i \in 1..Len(asked) : asked[i] = q})
            /\ loaded[q].first_asked = table[q].first_asked
\* C28 (as claimed): a conversation marked analyzed has a stored summary with
\* its conv_id, and an analyze_conversation call in which a step fails
\* returns None (it does not raise), the conversation staying unanalyzed.
AnalyzedOnlyAfterSummaryStored ==
    /\ \A i \in 1..Len(memdb.conversations) :
          memdb.conversations[i].analyzed =>
              \E j \in 1..Len(memdb.summaries) :
                  memdb.summaries[j].conv_id = memdb.conversations[i].id
    /\ memdb.outcome.status # "raised"
    /\ (memdb.outcome.status = "returned" /\ memdb.outcome.value = "None") =>
          \A i \in 1..Len(memdb.conversations) :
              memdb.conversations[i].id = memdb.outcome.conv_id
                  => ~memdb.conversations[i].analyzed
\* C29 (as claimed): whenever assess flags the message as offensive, respond,
\* no collaborator failing, returns the fixed refusal phrase and the turn is
\* not stored in the conversation memory.
OffensiveMessageRefused ==
    (reply # NoReply /\ reply.fail = "none" /\ assess(reply.message).is_offensive) =>
        /\ reply.status = "returned"
        /\ reply.response = Refusal
        /\ \A i \in 1..Len(conversations) : conversations[i].user_message # reply.message
====
